---- MODULE Spec2Model ----
(***************************************************************************)
(* Controller.svelte of rrweb-player: the playback controls of a session   *)
(* replay, mirrored from the rrweb Replayer ("the engine") the component   *)
(* is handed as a prop.                                                    *)
(*                                                                         *)
(* The component's script is translated function by function into          *)
(* operators over a record w ("the world": the component's variables, the  *)
(* browser's animation-frame queue and the engine's state).  An action     *)
(* runs one whole handler on the current world and commits the result.     *)
(* The engine is not part of this repository; it is modelled by the        *)
(* interface the component uses: the player and speed state machines, the  *)
(* play/pause/setConfig commands, the synchronous state-change and finish  *)
(* notifications and the playback clock.                                   *)
(***************************************************************************)
EXTENDS Integers, Sequences, FiniteSets

\* ------------------------------------------------------------------ bounds

\* meta.totalTime, in clock units.
TotalTime == 3
\* Number of distinct animation-frame handles the browser hands out.
MaxHandle == 3

\* speedOption: the speeds offered by the buttons; speedOption[0] is the default.
speedOption == <<1, 2>>
Speeds == {speedOption[i] : i \in 1..Len(speedOption)}

\* Event logs drawn for the markers: at most MaxEvents events, timestamps 0..MaxStamp.
MaxEvents == 3
MaxStamp == 3
\* Inputs drawn for the progress percentage: currentTime and meta.totalTime.
MaxPctTime == 11
MaxPctTotal == 5

\* The value of a variable that was declared and never assigned.
Undef == "undefined"
\* let timer: number | null = null
Null == 0

VARIABLES
    phase,          \* "created" (script ran), "mounted", "destroyed"
    autoPlay,       \* prop
    currentTime,    \* let currentTime = 0
    timer,          \* let timer: number | null
    playerState,    \* let playerState: 'playing' | 'paused' | 'live'
    speedState,     \* let speedState: 'normal' | 'skipping'
    finished,       \* let finished: boolean (undefined is falsy: FALSE)
    speed,          \* prop speed
    skipInactive,   \* prop skipInactive
    dirty,          \* Svelte: an update pass is scheduled
    rafQueue,       \* browser: handles of the pending animation-frame callbacks
    engState,       \* replayer.service.state.value
    engSpeedState,  \* replayer.speedService.state.value
    etime,          \* replayer.getCurrentTime()
    engSpeed,       \* replayer.config.speed
    engSkip,        \* replayer.config.skipInactive
    advanced,       \* the engine's clock has advanced in the current frame
    cmds,           \* history: engine commands sent by the last handler
    gotos,          \* history: goto calls made by the last handler
    last,           \* history: the last handler, its arguments, the world before it
    finishSeen,     \* history: finish notification received since the last effective play()
    toggles,        \* history: skipInactive toggles since the last update pass
    speedWatch,     \* history: follows currentTime after a setSpeed during playback
    events,         \* replayer.service.state.context.events
    tags,           \* prop tags
    customEvents,   \* let customEvents: CustomEvent[]
    pctTime,        \* currentTime as read by the percentage statement
    pctTotal,       \* meta.totalTime as read by the percentage statement
    percentage,     \* let percentage: string, as the fraction before the "%"
    pureStep        \* "idle", "input" (inputs set) or "derived" (statement has run)

progVars == <<phase, autoPlay, currentTime, timer, playerState, speedState, finished,
              speed, skipInactive, dirty, rafQueue, engState, engSpeedState, etime,
              engSpeed, engSkip, advanced, cmds, gotos>>
histVars == <<last, finishSeen, toggles, speedWatch>>
derivedVars == <<events, tags, customEvents, pctTime, pctTotal, percentage, pureStep>>
vars == <<progVars, histVars, derivedVars>>

World ==
    [phase |-> phase, autoPlay |-> autoPlay, currentTime |-> currentTime,
     timer |-> timer, playerState |-> playerState, speedState |-> speedState,
     finished |-> finished, speed |-> speed, skipInactive |-> skipInactive,
     dirty |-> dirty, rafQueue |-> rafQueue, engState |-> engState,
     engSpeedState |-> engSpeedState, etime |-> etime, engSpeed |-> engSpeed,
     engSkip |-> engSkip, advanced |-> advanced, cmds |-> cmds, gotos |-> gotos]

\* ------------------------------------------------------- browser: frames

\* The handle the next requestAnimationFrame returns: one that names no
\* pending callback and is not the one the component still holds.
FreshHandle(w) ==
    LET free == {i \in 1..MaxHandle : i \notin (w.rafQueue \cup {w.timer})}
    IN  IF free = {} THEN MaxHandle
        ELSE CHOOSE i \in free : \A j \in free : i <= j

\* timer = requestAnimationFrame(update)
requestAnimationFrame(w) ==
    LET h == FreshHandle(w)
    IN  [w EXCEPT !.timer = h, !.rafQueue = @ \cup {h}]

cancelAnimationFrame(w, h) == [w EXCEPT !.rafQueue = @ \ {h}]

\* ------------------------------------------------ Controller.svelte script

\* Faulty variant of stopTimer: forgets the handle without cancelling the callback.
stopTimer_KeepsCallback(w) == [w EXCEPT !.timer = Null]

stopTimer(w) ==
    IF w.timer # Null
    THEN [cancelAnimationFrame(w, w.timer) EXCEPT !.timer = Null]
    ELSE w

\* Faulty variant of update: stores the time and never schedules a successor.
update_NoReschedule(w) == [w EXCEPT !.currentTime = w.etime]

\* Faulty variant of update: schedules a successor whatever the time read.
update_AlwaysReschedule(w) == requestAnimationFrame([w EXCEPT !.currentTime = w.etime])

\* function update() inside loopTimer
update(w) ==
    LET w1 == [w EXCEPT !.currentTime = w.etime]
    IN  IF w1.currentTime < TotalTime THEN requestAnimationFrame(w1) ELSE w1

loopTimer(w) == requestAnimationFrame(stopTimer(w))

\* Faulty variant of the state-change listener: a change to live is not mirrored.
stateChangeHandler_SkipsLive(w, player, spd) ==
    LET w1 == IF player # Undef /\ player # "live" /\ w.playerState # player
              THEN LET a == [w EXCEPT !.playerState = player]
                   IN  CASE player = "playing" -> loopTimer(a)
                         [] player = "paused" -> stopTimer(a)
                         [] OTHER -> a
              ELSE w
    IN  IF spd # Undef /\ w1.speedState # spd
        THEN [w1 EXCEPT !.speedState = spd]
        ELSE w1

\* The listener of 'state-change' registered in onMount; player and spd are
\* the values of states.player and states.speed, Undef when absent.
stateChangeHandler(w, player, spd) ==
    LET w1 == IF player # Undef /\ w.playerState # player
              THEN LET a == [w EXCEPT !.playerState = player]
                   IN  CASE player = "playing" -> loopTimer(a)
                         [] player = "paused" -> stopTimer(a)
                         [] OTHER -> a
              ELSE w
    IN  IF spd # Undef /\ w1.speedState # spd
        THEN [w1 EXCEPT !.speedState = spd]
        ELSE w1

\* The listener of 'finish' registered in onMount.
finishHandler(w) == [w EXCEPT !.finished = TRUE]

\* ------------------------------------------------------------ the engine

\* Listeners are registered in onMount and never removed.
Subscribed(w) == w.phase # "created"

emitStateChange(w, player, spd) ==
    IF Subscribed(w) THEN stateChangeHandler(w, player, spd) ELSE w

emitFinish(w) == IF Subscribed(w) THEN finishHandler(w) ELSE w

\* The player machine: one event sent to replayer.service.  Every send
\* notifies the subscribers with the resulting state, changed or not.
serviceSend(w, ev, timeOffset) ==
    LET next == CASE w.engState = "playing" /\ ev \in {"PAUSE", "END"} -> "paused"
                  [] w.engState = "paused" /\ ev = "PLAY" -> "playing"
                  [] w.engState = "paused" /\ ev = "TO_LIVE" -> "live"
                  [] OTHER -> w.engState
        w1 == [w EXCEPT !.engState = next,
                        !.etime = IF w.engState = "paused" /\ ev = "PLAY"
                                  THEN timeOffset ELSE @]
    IN  emitStateChange(w1, next, Undef)

\* The speed machine: one event sent to replayer.speedService.
speedServiceSend(w, ev) ==
    LET next == CASE w.engSpeedState = "normal" /\ ev = "FAST_FORWARD" -> "skipping"
                  [] ev \in {"BACK_TO_NORMAL", "SET_SPEED"} -> "normal"
                  [] OTHER -> w.engSpeedState
    IN  emitStateChange([w EXCEPT !.engSpeedState = next], Undef, next)

enginePlay(w, timeOffset) ==
    IF w.engState = "paused"
    THEN serviceSend(w, "PLAY", timeOffset)
    ELSE serviceSend(serviceSend(w, "PAUSE", 0), "PLAY", timeOffset)

enginePause(w) ==
    IF w.engState = "playing" THEN serviceSend(w, "PAUSE", 0) ELSE w

backToNormal(w) ==
    IF w.engSpeedState = "normal" THEN w ELSE speedServiceSend(w, "BACK_TO_NORMAL")

engineSetSpeed(w, v) == speedServiceSend([w EXCEPT !.engSpeed = v], "SET_SPEED")

engineSetSkipInactive(w, b) ==
    LET w1 == [w EXCEPT !.engSkip = b]
    IN  IF ~b THEN backToNormal(w1) ELSE w1

\* The component's calls, each recorded in the command history.
Cmd(c, a) == [c |-> c, arg |-> a]
Sent(w, c, a) == [w EXCEPT !.cmds = Append(@, Cmd(c, a))]

\* replayer.play(timeOffset); replayer.play() is replayer.play(0)
replayerPlay(w, timeOffset) == enginePlay(Sent(w, "play", timeOffset), timeOffset)
replayerPause(w) == enginePause(Sent(w, "pause", 0))
replayerSetConfigSpeed(w, v) == engineSetSpeed(Sent(w, "setConfig.speed", v), v)
replayerSetConfigSkipInactive(w, b) ==
    engineSetSkipInactive(Sent(w, "setConfig.skipInactive", IF b THEN 1 ELSE 0), b)

\* ------------------------------------------------ Controller.svelte, cont.

\* Faulty variant of play: restarts from 0 and leaves the finished flag set.
play_KeepsFinished(w) ==
    IF w.playerState # "paused" THEN w
    ELSE IF w.finished
         THEN replayerPlay(w, 0)
         ELSE replayerPlay(w, w.currentTime)

play(w) ==
    IF w.playerState # "paused" THEN w
    ELSE IF w.finished
         THEN [replayerPlay(w, 0) EXCEPT !.finished = FALSE]
         ELSE replayerPlay(w, w.currentTime)

\* Faulty variant of pause: no guard on playerState.
pause_Unguarded(w) == replayerPause(w)

pause(w) ==
    IF w.playerState # "playing" THEN w ELSE replayerPause(w)

\* Faulty variant of toggle: both cases call pause.
toggle_PauseOnly(w) ==
    CASE w.playerState = "playing" -> pause(w)
      [] w.playerState = "paused" -> pause(w)
      [] OTHER -> w

toggle(w) ==
    CASE w.playerState = "playing" -> pause(w)
      [] w.playerState = "paused" -> play(w)
      [] OTHER -> w

\* Faulty variant of goto: does not pause again when it was not playing.
goto_NoRepause(w, timeOffset) ==
    LET w0 == [w EXCEPT !.gotos = Append(@, timeOffset)]
        w1 == [w0 EXCEPT !.currentTime = timeOffset]
    IN  replayerPlay(replayerPause(w1), timeOffset)

goto(w, timeOffset) ==
    LET w0 == [w EXCEPT !.gotos = Append(@, timeOffset)]
        w1 == [w0 EXCEPT !.currentTime = timeOffset]
        isPlaying == w1.playerState = "playing"
        w2 == replayerPlay(replayerPause(w1), timeOffset)
    IN  IF ~isPlaying THEN replayerPause(w2) ELSE w2

\* Faulty variant of handleProgressClick: the fraction is not clamped.
handleProgressClick_NoClamp(w, x, width) ==
    IF w.speedState = "skipping" THEN w
    ELSE goto(w, (TotalTime * x) \div width)

\* x is event.clientX - progressRect.left, width is progressRect.width.
\* percent is the fraction x / width; the offset meta.totalTime * percent is
\* exact for the widths drawn (TrackWidths).
handleProgressClick(w, x, width) ==
    IF w.speedState = "skipping" THEN w
    ELSE LET timeOffset == IF x < 0 THEN 0
                           ELSE IF x > width THEN TotalTime
                           ELSE (TotalTime * x) \div width
         IN  goto(w, timeOffset)

\* Faulty variant of setSpeed: does not resume after the freeze.
setSpeed_NoResume(w, newSpeed) ==
    LET needFreeze == w.playerState = "playing"
        w1 == [w EXCEPT !.speed = newSpeed]
        w2 == IF needFreeze THEN replayerPause(w1) ELSE w1
    IN  replayerSetConfigSpeed(w2, w2.speed)

\* Faulty variant of setSpeed: resumes from the beginning.
setSpeed_ResumeFromZero(w, newSpeed) ==
    LET needFreeze == w.playerState = "playing"
        w1 == [w EXCEPT !.speed = newSpeed]
        w2 == IF needFreeze THEN replayerPause(w1) ELSE w1
        w3 == replayerSetConfigSpeed(w2, w2.speed)
    IN  IF needFreeze THEN replayerPlay(w3, 0) ELSE w3

setSpeed(w, newSpeed) ==
    LET needFreeze == w.playerState = "playing"
        w1 == [w EXCEPT !.speed = newSpeed]
        w2 == IF needFreeze THEN replayerPause(w1) ELSE w1
        w3 == replayerSetConfigSpeed(w2, w2.speed)
    IN  IF needFreeze THEN replayerPlay(w3, w3.currentTime) ELSE w3

toggleSkipInactive(w) == [w EXCEPT !.skipInactive = ~@]

\* Faulty variant of afterUpdate: writes the flag to the engine in every pass.
afterUpdate_Unconditional(w) == replayerSetConfigSkipInactive(w, w.skipInactive)

afterUpdate(w) ==
    IF w.skipInactive # w.engSkip
    THEN replayerSetConfigSkipInactive(w, w.skipInactive)
    ELSE w

onMount(w) ==
    LET w1 == [w EXCEPT !.playerState = w.engState,
                        !.speedState = w.engSpeedState,
                        !.phase = "mounted"]
    IN  IF w1.autoPlay THEN replayerPlay(w1, 0) ELSE w1

onDestroy(w) == [stopTimer(replayerPause(w)) EXCEPT !.phase = "destroyed"]

\* --------------------------------------- Controller.svelte: derived values

\* A fraction num / den, den > 0.
Frac(n, d) == [num |-> n, den |-> d]
FracLeq(a, b) == a.num * b.den <= b.num * a.den

\* Faulty variant of percentOf: the fraction is not capped at 1.
percentOf_Unclamped(ct, total) == Frac(ct, total)

\* const percent = Math.min(1, currentTime / meta.totalTime)
percentOf(ct, total) == IF ct > total THEN Frac(1, 1) ELSE Frac(ct, total)

\* percentage = `${100 * percent}%`
percentageOf(ct, total) ==
    LET percent == percentOf(ct, total) IN Frac(100 * percent.num, percent.den)

\* Number.prototype.toFixed(2) of the fraction n / d: the nearest multiple of
\* 0.01, as a count of hundredths; of two equally near, the one away from 0.
\* NaN and the infinities (d = 0) print as their names.
toFixed2(n, d) ==
    CASE d = 0 /\ n = 0 -> [kind |-> "NaN", h |-> 0]
      [] d = 0 /\ n > 0 -> [kind |-> "Infinity", h |-> 0]
      [] d = 0 /\ n < 0 -> [kind |-> "-Infinity", h |-> 0]
      [] d > 0 /\ n >= 0 -> [kind |-> "num", h |-> (200 * n + d) \div (2 * d)]
      [] OTHER -> [kind |-> "num", h |-> 0 - ((200 * (0 - n) + d) \div (2 * d))]

\* Faulty variant of position: measures from the end of the session.
position_FromEnd(startTime, endTime, tagTime) ==
    toFixed2(100 * (endTime - tagTime), endTime - startTime)

\* const position = (startTime, endTime, tagTime) => ...: the value
\* 100 - (eventDuration / sessionDuration) * 100 is the fraction
\* (100 * sessionDuration - 100 * eventDuration) / sessionDuration, and with
\* sessionDuration = 0 it is NaN (0 / 0) or 100 minus an infinity.
position(startTime, endTime, tagTime) ==
    LET sessionDuration == endTime - startTime
        eventDuration == endTime - tagTime
    IN  IF sessionDuration = 0
        THEN toFixed2(0 - eventDuration, 0)
        ELSE toFixed2(100 * sessionDuration - 100 * eventDuration, sessionDuration)

\* 'rgb(73, 80, 246)'
DefaultBackground == "rgb(73, 80, 246)"

\* tags[event.data.tag] || 'rgb(73, 80, 246)'
backgroundOf(tg, tag) ==
    IF tag \in DOMAIN tg /\ tg[tag] # "" THEN tg[tag] ELSE DefaultBackground

\* $: customEvents = (() => { ... })(): forEach over the log, in order.
RECURSIVE customEventsFrom(_, _, _)
customEventsFrom(evs, tg, i) ==
    IF i > Len(evs) THEN <<>>
    ELSE LET event == evs[i]
             start == evs[1].timestamp
             end == evs[Len(evs)].timestamp
             rest == customEventsFrom(evs, tg, i + 1)
         IN  IF event.type = "Custom"
             THEN <<[name |-> event.tag,
                     background |-> backgroundOf(tg, event.tag),
                     position |-> position(start, end, event.timestamp)]>> \o rest
             ELSE rest

customEventsOf(evs, tg) == customEventsFrom(evs, tg, 1)

\* ------------------------------------------------------------- the system

\* The most the engine's clock advances during one display frame at speed v.
FrameWorth(v) == v

\* Widths of the progress track for which meta.totalTime * x / width is exact.
TrackWidths == {n \in 1..TotalTime : TotalTime % n = 0}
\* Click positions relative to the track's left edge, from left of it to right of it.
ClickXs(width) == -1..(width + 1)

\* Svelte schedules an update pass when a variable the markup or a reactive
\* statement reads is assigned a different value, while the component is mounted.
Invalidated(w) ==
    \/ w.currentTime # currentTime
    \/ w.playerState # playerState
    \/ w.speedState # speedState
    \/ w.speed # speed
    \/ w.skipInactive # skipInactive

Settle(w, scheduled) ==
    [w EXCEPT !.dirty = (w.phase = "mounted") /\ (scheduled \/ Invalidated(w))]

Commit(w) ==
    /\ phase' = w.phase
    /\ autoPlay' = w.autoPlay
    /\ currentTime' = w.currentTime
    /\ timer' = w.timer
    /\ playerState' = w.playerState
    /\ speedState' = w.speedState
    /\ finished' = w.finished
    /\ speed' = w.speed
    /\ skipInactive' = w.skipInactive
    /\ dirty' = w.dirty
    /\ rafQueue' = w.rafQueue
    /\ engState' = w.engState
    /\ engSpeedState' = w.engSpeedState
    /\ etime' = w.etime
    /\ engSpeed' = w.engSpeed
    /\ engSkip' = w.engSkip
    /\ advanced' = w.advanced
    /\ cmds' = w.cmds
    /\ gotos' = w.gotos
    /\ UNCHANGED derivedVars

\* The world a handler starts from: the histories of the previous one cleared.
Begin == [World EXCEPT !.cmds = <<>>, !.gotos = <<>>]

NoLast == [op |-> "none", a |-> 0, b |-> 0, pre |-> <<>>, seen |-> FALSE, tog |-> "none"]
Did(op, a, b) ==
    [op |-> op, a |-> a, b |-> b, pre |-> Begin, seen |-> finishSeen, tog |-> toggles]
NoWatch == [at |-> "none", pre |-> 0]

\* The derived values play no part in playback: there they are left alone.
DerivedIdle ==
    /\ events = <<>>
    /\ tags = <<>>
    /\ customEvents = <<>>
    /\ pctTime = 0
    /\ pctTotal = 1
    /\ percentage = Frac(0, 1)
    /\ pureStep = "idle"

\* Tasks of the event loop run only after Svelte's scheduled update pass (a
\* microtask) has run; calls made by the host in one task are not separated by it.
TaskStart == ~dirty

Init ==
    /\ phase = "created"
    /\ autoPlay \in BOOLEAN
    /\ currentTime = 0
    /\ timer = Null
    /\ playerState = Undef
    /\ speedState = Undef
    /\ finished = FALSE
    /\ speed = speedOption[1]
    /\ skipInactive \in BOOLEAN
    /\ dirty = FALSE
    /\ rafQueue = {}
    /\ engState = "paused"
    /\ engSpeedState = "normal"
    /\ etime = 0
    /\ engSpeed = speedOption[1]
    /\ engSkip \in BOOLEAN
    /\ advanced = FALSE
    /\ cmds = <<>>
    /\ gotos = <<>>
    /\ last = NoLast
    /\ finishSeen = FALSE
    /\ toggles = "nopass"
    /\ speedWatch = NoWatch
    /\ DerivedIdle

\* onMount, then afterUpdate, in the flush that mounts the component.
Mount ==
    /\ phase = "created"
    /\ Commit(Settle(afterUpdate(onMount(Begin)), FALSE))
    /\ last' = Did("mount", 0, 0)
    /\ speedWatch' = NoWatch
    /\ toggles' = "none"
    /\ UNCHANGED finishSeen

Destroy ==
    /\ phase = "mounted"
    /\ Commit(Settle(onDestroy(Begin), FALSE))
    /\ last' = Did("destroy", 0, 0)
    /\ speedWatch' = NoWatch
    /\ UNCHANGED <<finishSeen, toggles>>

\* The scheduled update pass: afterUpdate runs.
AfterUpdate ==
    /\ phase = "mounted"
    /\ dirty
    /\ Commit(Settle(afterUpdate(Begin), FALSE))
    /\ last' = Did("afterUpdate", 0, 0)
    /\ toggles' = "none"
    /\ UNCHANGED <<finishSeen, speedWatch>>

CallToggle ==
    /\ phase # "destroyed"
    /\ Commit(Settle(toggle(Begin), dirty))
    /\ last' = Did("toggle", 0, 0)
    /\ finishSeen' = IF playerState = "paused" THEN FALSE ELSE finishSeen
    /\ speedWatch' = NoWatch
    /\ UNCHANGED toggles

CallPlay ==
    /\ phase # "destroyed"
    /\ Commit(Settle(play(Begin), dirty))
    /\ last' = Did("play", 0, 0)
    /\ finishSeen' = IF playerState = "paused" THEN FALSE ELSE finishSeen
    /\ speedWatch' = NoWatch
    /\ UNCHANGED toggles

CallPause ==
    /\ phase # "destroyed"
    /\ Commit(Settle(pause(Begin), dirty))
    /\ last' = Did("pause", 0, 0)
    /\ speedWatch' = NoWatch
    /\ UNCHANGED <<finishSeen, toggles>>

CallGoto ==
    \E t \in 0..TotalTime :
        /\ phase # "destroyed"
        /\ Commit(Settle(goto(Begin, t), dirty))
        /\ last' = Did("goto", t, 0)
        /\ speedWatch' = NoWatch
        /\ UNCHANGED <<finishSeen, toggles>>

CallSetSpeed ==
    \E v \in Speeds :
        /\ phase # "destroyed"
        /\ Commit(Settle(setSpeed(Begin, v), dirty))
        /\ last' = Did("setSpeed", v, 0)
        /\ speedWatch' = IF playerState = "playing"
                         THEN [at |-> "returned", pre |-> currentTime]
                         ELSE NoWatch
        /\ UNCHANGED <<finishSeen, toggles>>

CallToggleSkipInactive ==
    /\ phase # "destroyed"
    /\ Commit(Settle(toggleSkipInactive(Begin), dirty))
    /\ last' = Did("toggleSkipInactive", 0, 0)
    /\ speedWatch' = NoWatch
    /\ toggles' = CASE toggles = "nopass" -> "nopass"
                     [] toggles = "odd" -> "even"
                     [] OTHER -> "odd"
    /\ UNCHANGED finishSeen

\* on:click of the progress track
ClickProgress ==
    \E width \in TrackWidths : \E x \in ClickXs(width) :
        /\ phase = "mounted"
        /\ TaskStart
        /\ Commit(Settle(handleProgressClick(Begin, x, width), FALSE))
        /\ last' = Did("click", x, width)
        /\ speedWatch' = NoWatch
        /\ UNCHANGED <<finishSeen, toggles>>

\* One display frame: the browser runs the callbacks that were pending when it began.
RECURSIVE runCallbacks(_, _)
runCallbacks(w, n) == IF n = 0 THEN w ELSE runCallbacks(update(w), n - 1)

Frame ==
    /\ TaskStart
    /\ advanced \/ rafQueue # {}
    /\ Commit(Settle(runCallbacks([Begin EXCEPT !.rafQueue = {}, !.advanced = FALSE],
                                  Cardinality(rafQueue)), FALSE))
    /\ last' = Did("frame", Cardinality(rafQueue), 0)
    /\ speedWatch' = IF speedWatch.at = "returned"
                     THEN IF rafQueue # {} THEN [speedWatch EXCEPT !.at = "ticked"]
                          ELSE speedWatch
                     ELSE NoWatch
    /\ UNCHANGED <<finishSeen, toggles>>

\* The engine's clock advances, once per frame, while it plays.
EngineAdvance ==
    \E d \in 1..FrameWorth(engSpeed) :
        /\ TaskStart
        /\ engState = "playing"
        /\ ~advanced
        /\ etime < TotalTime
        /\ Commit([Begin EXCEPT !.etime = @ + d, !.advanced = TRUE])
        /\ last' = NoLast
        /\ UNCHANGED <<finishSeen, speedWatch, toggles>>

\* The engine has cast its last event: END, then the finish notification.
EngineEnd ==
    /\ TaskStart
    /\ engState = "playing"
    /\ etime >= TotalTime
    /\ Commit(Settle(emitFinish(serviceSend(Begin, "END", 0)), FALSE))
    /\ last' = NoLast
    /\ finishSeen' = IF phase # "created" THEN TRUE ELSE finishSeen
    /\ UNCHANGED <<speedWatch, toggles>>

\* The engine starts to skip a span of inactivity, and ends skipping it.
EngineFastForward ==
    /\ TaskStart
    /\ engState = "playing"
    /\ engSkip
    /\ engSpeedState = "normal"
    /\ Commit(Settle(speedServiceSend(Begin, "FAST_FORWARD"), FALSE))
    /\ last' = NoLast
    /\ UNCHANGED <<finishSeen, speedWatch, toggles>>

EngineBackToNormal ==
    /\ TaskStart
    /\ engSpeedState = "skipping"
    /\ Commit(Settle(backToNormal(Begin), FALSE))
    /\ last' = NoLast
    /\ UNCHANGED <<finishSeen, speedWatch, toggles>>

\* The host drives the engine itself (getReplayer()).
HostPlay ==
    \E t \in 0..TotalTime :
        /\ Commit(Settle(enginePlay(Begin, t), dirty))
        /\ last' = NoLast
        /\ speedWatch' = NoWatch
        /\ UNCHANGED <<finishSeen, toggles>>

HostPause ==
    /\ Commit(Settle(enginePause(Begin), dirty))
    /\ last' = NoLast
    /\ speedWatch' = NoWatch
    /\ UNCHANGED <<finishSeen, toggles>>

HostStartLive ==
    /\ Commit(Settle(serviceSend(Begin, "TO_LIVE", 0), dirty))
    /\ last' = NoLast
    /\ speedWatch' = NoWatch
    /\ UNCHANGED <<finishSeen, toggles>>

Next ==
    \/ Mount
    \/ Destroy
    \/ AfterUpdate
    \/ CallToggle
    \/ CallPlay
    \/ CallPause
    \/ CallGoto
    \/ CallSetSpeed
    \/ CallToggleSkipInactive
    \/ ClickProgress
    \/ Frame
    \/ EngineAdvance
    \/ EngineEnd
    \/ EngineFastForward
    \/ EngineBackToNormal
    \/ HostPlay
    \/ HostPause
    \/ HostStartLive

\* ------------------------------------------- the derived values on their own

\* The component as constructed, before anything happens to it.
Quiet ==
    /\ phase = "created"
    /\ autoPlay = FALSE
    /\ currentTime = 0
    /\ timer = Null
    /\ playerState = Undef
    /\ speedState = Undef
    /\ finished = FALSE
    /\ speed = speedOption[1]
    /\ skipInactive = FALSE
    /\ dirty = FALSE
    /\ rafQueue = {}
    /\ engState = "paused"
    /\ engSpeedState = "normal"
    /\ etime = 0
    /\ engSpeed = speedOption[1]
    /\ engSkip = FALSE
    /\ advanced = FALSE
    /\ cmds = <<>>
    /\ gotos = <<>>
    /\ last = NoLast
    /\ finishSeen = FALSE
    /\ toggles = "nopass"
    /\ speedWatch = NoWatch

TagNames == {"A", "B"}
Events ==
    [timestamp : 0..MaxStamp, type : {"Custom"}, tag : TagNames]
        \cup [timestamp : 0..MaxStamp, type : {"Other"}, tag : {""}]
\* The engine keeps its log in timestamp order; the log is not empty.
Sorted(evs) == \A i \in 1..(Len(evs) - 1) : evs[i].timestamp <= evs[i + 1].timestamp
Logs == UNION {{evs \in [1..n -> Events] : Sorted(evs)} : n \in 1..MaxEvents}
\* tags: no colour configured, or one for tag A.
TagConfigs == {<<>>, [t \in {"A"} |-> "red"]}

InitMarkers ==
    /\ Quiet
    /\ events \in Logs
    /\ tags \in TagConfigs
    /\ customEvents = <<>>
    /\ pctTime = 0
    /\ pctTotal = 1
    /\ percentage = Frac(0, 1)
    /\ pureStep = "input"

\* The reactive statement that derives customEvents runs.
DeriveCustomEvents ==
    /\ pureStep = "input"
    /\ customEvents' = customEventsOf(events, tags)
    /\ pureStep' = "derived"
    /\ UNCHANGED <<progVars, histVars, events, tags, pctTime, pctTotal, percentage>>

SpecMarkers == InitMarkers /\ [][DeriveCustomEvents]_vars

InitPercent ==
    /\ Quiet
    /\ events = <<>>
    /\ tags = <<>>
    /\ customEvents = <<>>
    /\ pctTime \in 0..MaxPctTime
    /\ pctTotal \in 1..MaxPctTotal
    /\ percentage = Frac(0, 1)
    /\ pureStep = "input"

\* The reactive statement that derives percentage runs.
DerivePercentage ==
    /\ pureStep = "input"
    /\ percentage' = percentageOf(pctTime, pctTotal)
    /\ pureStep' = "derived"
    /\ UNCHANGED <<progVars, histVars, events, tags, customEvents, pctTime, pctTotal>>

SpecPercent == InitPercent /\ [][DerivePercentage]_vars

\* The component and the engine it drives, the host leaving the engine alone.
NextOwn ==
    \/ Mount
    \/ Destroy
    \/ AfterUpdate
    \/ CallToggle
    \/ CallPlay
    \/ CallPause
    \/ CallGoto
    \/ CallSetSpeed
    \/ CallToggleSkipInactive
    \/ ClickProgress
    \/ Frame
    \/ EngineAdvance
    \/ EngineEnd
    \/ EngineFastForward
    \/ EngineBackToNormal

SpecOwn == Init /\ [][NextOwn]_vars

\* Playback on its own: the component is mounted, played, paused and sought
\* while the engine runs to the end of the session.
NextPlayback ==
    \/ Mount
    \/ AfterUpdate
    \/ CallPlay
    \/ CallPause
    \/ CallGoto
    \/ Frame
    \/ EngineAdvance
    \/ EngineEnd

\* The browser runs a pending frame callback at its next frame, and Svelte
\* flushes a scheduled update pass.
SpecPlaybackFair ==
    Init /\ [][NextPlayback]_vars /\ WF_vars(Frame) /\ WF_vars(AfterUpdate)

Spec == Init /\ [][Next]_vars

\* ------------------------------------------------------------ properties

\* The component's own state in world w, and the engine's.
ControllerState(w) ==
    <<w.currentTime, w.timer, w.playerState, w.speedState, w.finished, w.speed,
      w.skipInactive, w.rafQueue>>
EngineState(w) == <<w.engState, w.engSpeedState, w.etime, w.engSpeed, w.engSkip>>

\* The last handler sent nothing to the engine and changed nothing.
WasNoOp ==
    /\ cmds = <<>>
    /\ ControllerState(World) = ControllerState(last.pre)
    /\ EngineState(World) = EngineState(last.pre)

Clamp(x, lo, hi) == IF x < lo THEN lo ELSE IF x > hi THEN hi ELSE x

\* C1: after mount, goto(t) with t in [0, TotalTime] returns with the engine's
\* playback state and the mirrored playerState equal to what they were before
\* the call, whether that was playing, paused or live.
C1_GotoKeepsPlaybackState ==
    (last.op = "goto" /\ last.pre.phase = "mounted") =>
        /\ engState = last.pre.engState
        /\ playerState = last.pre.playerState

\* goto(t), t > 0, was called while paused: the engine was started at t and paused again.
C1_Witness ==
    /\ last.op = "goto"
    /\ last.pre.phase = "mounted"
    /\ last.pre.playerState = "paused"
    /\ last.a > 0
    /\ etime = last.a
    /\ cmds = <<Cmd("pause", 0), Cmd("play", last.a), Cmd("pause", 0)>>
    /\ playerState = "paused"

\* C2: toggle() while paused ends playing, while playing ends paused, and in
\* any other state (live, not yet mounted) sends nothing to the engine and
\* changes nothing.
C2_Toggle ==
    (last.op = "toggle") =>
        /\ (last.pre.playerState = "paused") =>
              (playerState = "playing" /\ engState = "playing")
        /\ (last.pre.playerState = "playing") =>
              (playerState = "paused" /\ engState = "paused")
        /\ (last.pre.playerState \notin {"paused", "playing"}) => WasNoOp

C2_Witness ==
    /\ last.op = "toggle"
    /\ last.pre.playerState = "paused"
    /\ playerState = "playing"
    /\ Len(cmds) = 1

\* C3: whenever the mirrored playerState is paused, no per-frame callback is pending.
C3_PausedNoTimer == (playerState = "paused") => (rafQueue = {})

\* pause() cancelled a pending callback.
C3_Witness ==
    /\ last.op = "pause"
    /\ last.pre.rafQueue # {}
    /\ playerState = "paused"
    /\ rafQueue = {}

\* C4 as claimed: whenever playerState is playing exactly one per-frame
\* callback is pending.
C4_PlayingExactlyOneTimer == (playerState = "playing") => (Cardinality(rafQueue) = 1)

\* C4 as amended: while playerState is playing at most one callback is
\* pending, and exactly one is whenever the loop was started by a state-change
\* notification (the timer handle is set) and the stored currentTime is below
\* TotalTime.
C4_PlayingTimerUnlessEnded ==
    (playerState = "playing") =>
        /\ Cardinality(rafQueue) <= 1
        /\ (timer # Null /\ currentTime < TotalTime) => (Cardinality(rafQueue) = 1)

\* A tick stored a time below TotalTime and scheduled its successor.
C4_Witness ==
    /\ playerState = "playing"
    /\ timer # Null
    /\ 0 < currentTime
    /\ currentTime < TotalTime
    /\ currentTime = etime
    /\ Cardinality(rafQueue) = 1

\* C5: play() while paused (directly or through toggle()) starts the engine
\* from 0 if a finish notification was received since the last effective
\* play(), and from the stored currentTime otherwise, and leaves the finished
\* flag clear; the flag is set exactly when a finish notification was received
\* since the last effective play().
C5_PlayAfterFinish ==
    /\ finished = finishSeen
    /\ (last.op \in {"play", "toggle"} /\ last.pre.playerState = "paused") =>
          LET from == IF last.seen THEN 0 ELSE last.pre.currentTime
          IN  /\ cmds = <<Cmd("play", from)>>
              /\ engState = "playing"
              /\ etime = from
              /\ ~finished

\* play() restarted from 0 after a finish although currentTime was not 0.
C5_Witness ==
    /\ last.op = "play"
    /\ last.pre.playerState = "paused"
    /\ last.seen
    /\ last.pre.currentTime > 0
    /\ cmds = <<Cmd("play", 0)>>
    /\ etime = 0

\* C6: play() while playerState is not paused, and pause() while it is not
\* playing, send nothing to the engine and change nothing.
C6_GuardedNoOps ==
    /\ (last.op = "play" /\ last.pre.playerState # "paused") => WasNoOp
    /\ (last.op = "pause" /\ last.pre.playerState # "playing") => WasNoOp

\* pause() was called on a mounted controller in live mode and sent nothing.
C6_Witness ==
    /\ last.op = "pause"
    /\ last.pre.phase = "mounted"
    /\ last.pre.playerState = "live"
    /\ cmds = <<>>

\* C7: setSpeed(v) ends with the engine's speed v and the playback state as
\* before; while playing the engine receives pause, setConfig({speed: v}), play
\* in that order and plays afterwards, otherwise it receives setConfig alone.
C7_SetSpeed ==
    (last.op = "setSpeed") =>
        /\ engSpeed = last.a
        /\ engState = last.pre.engState
        /\ playerState = last.pre.playerState
        /\ IF last.pre.playerState = "playing"
           THEN /\ Len(cmds) = 3
                /\ cmds[1] = Cmd("pause", 0)
                /\ cmds[2] = Cmd("setConfig.speed", last.a)
                /\ cmds[3].c = "play"
                /\ engState = "playing"
           ELSE cmds = <<Cmd("setConfig.speed", last.a)>>

C7_Witness ==
    /\ last.op = "setSpeed"
    /\ last.pre.playerState = "playing"
    /\ last.pre.engSpeed # last.a
    /\ engSpeed = last.a
    /\ Len(cmds) = 3
    /\ engState = "playing"

\* C8: after setSpeed(v) during playback, at its return and at the first frame
\* tick after it, currentTime is not below its value before the call and not
\* more than one frame's worth above it.
C8_SetSpeedNoJump ==
    /\ (speedWatch.at = "returned") => (currentTime = speedWatch.pre)
    /\ (speedWatch.at = "ticked") =>
          /\ speedWatch.pre <= currentTime
          /\ currentTime <= speedWatch.pre + FrameWorth(engSpeed)

\* The first tick after a setSpeed during playback stored a later time.
C8_Witness ==
    /\ speedWatch.at = "ticked"
    /\ speedWatch.pre > 0
    /\ currentTime > speedWatch.pre

\* C9 as claimed: setSpeed(v) during playback resumes the engine at the offset
\* the engine had when the call paused it, also when the engine's clock is
\* ahead of the stored currentTime.
C9_ResumeAtEngineOffset ==
    (/\ last.op = "setSpeed"
     /\ last.pre.phase = "mounted"
     /\ last.pre.playerState = "playing"
     /\ last.pre.currentTime <= last.pre.etime) =>
        /\ Len(cmds) = 3
        /\ cmds[3] = Cmd("play", last.pre.etime)

\* C10: a click on the progress track while skipping calls no goto, sends
\* nothing to the engine and leaves currentTime alone; otherwise it calls goto
\* once, with TotalTime times the click fraction clamped to [0, 1], which lies
\* in [0, TotalTime].
C10_ProgressClick ==
    (last.op = "click") =>
        IF last.pre.speedState = "skipping"
        THEN /\ gotos = <<>>
             /\ cmds = <<>>
             /\ currentTime = last.pre.currentTime
        ELSE /\ Len(gotos) = 1
             /\ gotos[1] * last.b = TotalTime * Clamp(last.a, 0, last.b)
             /\ 0 <= gotos[1]
             /\ gotos[1] <= TotalTime

\* A click right of the track went to TotalTime.
C10_Witness ==
    /\ last.op = "click"
    /\ last.pre.speedState = "normal"
    /\ last.a > last.b
    /\ gotos = <<TotalTime>>
    /\ currentTime = TotalTime

\* The other case of C10: a click made while skipping.
C10_SkippingClickReached ==
    /\ last.op = "click"
    /\ last.pre.speedState = "skipping"

\* The last handler sent a skipInactive configuration to the engine.
WroteSkipInactive == \E i \in 1..Len(cmds) : cmds[i].c = "setConfig.skipInactive"

\* C11: toggleSkipInactive() sends nothing to the engine and leaves its
\* configuration alone; the engine's skipInactive is written only in an update
\* pass, and only if it differed from the local flag; after every update pass
\* the two are equal; and a pass that follows an even number of toggles (or
\* none) since the pass before it does not reconfigure the engine.
C11_SkipInactiveCoalesced ==
    /\ (last.op = "toggleSkipInactive") =>
          (cmds = <<>> /\ EngineState(World) = EngineState(last.pre))
    /\ WroteSkipInactive =>
          /\ last.op \in {"mount", "afterUpdate"}
          /\ last.pre.skipInactive # last.pre.engSkip
    /\ (last.op \in {"mount", "afterUpdate"}) => (engSkip = skipInactive)
    /\ (last.op = "afterUpdate" /\ last.tog \in {"none", "even"}) =>
          (~WroteSkipInactive /\ engSkip = last.pre.engSkip)

\* An update pass after two or more toggles that cancelled out: nothing was sent.
C11_Witness ==
    /\ last.op = "afterUpdate"
    /\ last.tog = "even"
    /\ cmds = <<>>
    /\ engSkip = skipInactive

\* The other case of C11: a pass after an odd number of toggles reconfigured the engine.
C11_OddToggleWrites ==
    /\ last.op = "afterUpdate"
    /\ last.tog = "odd"
    /\ cmds = <<Cmd("setConfig.skipInactive", IF skipInactive THEN 1 ELSE 0)>>

\* C12 as claimed: onDestroy sends pause to the engine and leaves no per-frame
\* callback pending, and once the component is destroyed no callback of it is
\* ever pending again, whatever the engine does afterwards.
C12_NoCallbackAfterDestroy ==
    /\ (last.op = "destroy") => (cmds = <<Cmd("pause", 0)>> /\ rafQueue = {})
    /\ (phase = "destroyed") => (rafQueue = {})

\* The part of C12 that holds: the state onDestroy itself leaves behind.
C12_DestroyStopsTimer ==
    (last.op = "destroy") =>
        (cmds = <<Cmd("pause", 0)>> /\ rafQueue = {} /\ timer = Null)

\* C13: before mount playerState is never assigned, whatever is called; from
\* mount on it equals the engine's playback state in every state between
\* operations.
C13_MirrorsEngine ==
    /\ (phase = "created") => (playerState = Undef)
    /\ (phase # "created") => (playerState = engState)

\* play() requested the change and the engine's notification set the mirror.
C13_Witness ==
    /\ phase = "mounted"
    /\ last.op = "play"
    /\ last.pre.playerState = "paused"
    /\ playerState = "playing"
    /\ engState = "playing"

\* The mirror followed the engine into live mode after mount.
C13_LiveMirrored ==
    /\ phase = "mounted"
    /\ last.op = "pause"
    /\ last.pre.playerState = "live"
    /\ playerState = "live"

\* The custom events of the log, in log order.
IsCustom(e) == e.type = "Custom"
CustomsOfLog == SelectSeq(events, IsCustom)
FirstStamp == events[1].timestamp
LastStamp == events[Len(events)].timestamp
MarkersDerived == pureStep = "derived" /\ events # <<>>

\* What C14 says of every marker but its position: one marker per custom
\* event, in log order, named after the tag, coloured as configured or with
\* the default; its position a number from 0 to 100 that does not decrease
\* with the timestamp, 0 at the first timestamp and 100 at the last.
MarkersWellFormed ==
    /\ Len(customEvents) = Len(CustomsOfLog)
    /\ \A k \in 1..Len(customEvents) :
          LET m == customEvents[k]
              e == CustomsOfLog[k]
          IN  /\ m.name = e.tag
              /\ m.background = (IF e.tag \in DOMAIN tags THEN tags[e.tag]
                                                         ELSE DefaultBackground)
              /\ m.position.kind = "num"
              /\ m.position.h \in 0..10000
              /\ (e.timestamp = FirstStamp) => (m.position.h = 0)
              /\ (e.timestamp = LastStamp) => (m.position.h = 10000)
              /\ \A j \in 1..Len(customEvents) :
                    (CustomsOfLog[j].timestamp <= e.timestamp)
                        => (customEvents[j].position.h <= m.position.h)

\* C14 as stated: for a log whose first timestamp t0 is before its last t1,
\* customEvents is well formed and every marker's position equals
\* 100 * (tm - t0) / (t1 - t0) exactly, tm being the event's timestamp.
C14_MarkersExact ==
    (MarkersDerived /\ FirstStamp < LastStamp) =>
        /\ MarkersWellFormed
        /\ \A k \in 1..Len(customEvents) :
              customEvents[k].position.h * (LastStamp - FirstStamp)
                  = 10000 * (CustomsOfLog[k].timestamp - FirstStamp)

\* C14 amended: for a log whose first timestamp t0 is before its last t1,
\* customEvents is well formed and every marker's position is
\* 100 * (tm - t0) / (t1 - t0) rounded to two decimals: it is a whole number
\* of hundredths within half a hundredth of that value.
C14_MarkersRounded ==
    (MarkersDerived /\ FirstStamp < LastStamp) =>
        /\ MarkersWellFormed
        /\ \A k \in 1..Len(customEvents) :
              LET diff == customEvents[k].position.h * (LastStamp - FirstStamp)
                              - 10000 * (CustomsOfLog[k].timestamp - FirstStamp)
              IN  2 * diff <= (LastStamp - FirstStamp)
                      /\ 2 * (0 - diff) <= (LastStamp - FirstStamp)

\* C14's case: a log of duration 3 with custom events at its start, a third
\* of the way and its end, one of them with a configured colour.
C14_Witness ==
    /\ MarkersDerived
    /\ FirstStamp = 0 /\ LastStamp = 3
    /\ Len(customEvents) = 3
    /\ customEvents[1] = [name |-> "A", background |-> "red",
                          position |-> [kind |-> "num", h |-> 0]]
    /\ customEvents[2] = [name |-> "B", background |-> DefaultBackground,
                          position |-> [kind |-> "num", h |-> 3333]]
    /\ customEvents[3].position = [kind |-> "num", h |-> 10000]

\* C15: in a session of zero duration (the first and the last event share
\* their timestamp) every custom marker is placed at position 0%.
C15_ZeroDurationAtZero ==
    (MarkersDerived /\ FirstStamp = LastStamp) =>
        \A k \in 1..Len(customEvents) :
            customEvents[k].position = [kind |-> "num", h |-> 0]

\* What the code does in that session: every marker's position is "NaN%".
C15_ZeroDurationIsNaN ==
    (MarkersDerived /\ FirstStamp = LastStamp) =>
        /\ Len(customEvents) = Len(CustomsOfLog)
        /\ \A k \in 1..Len(customEvents) : customEvents[k].position.kind = "NaN"

\* C16: for a fixed meta.totalTime > 0 the progress fraction
\* min(1, currentTime / totalTime), shown as percentage, never exceeds 1
\* (100%) and does not decrease as currentTime grows, also when currentTime
\* is beyond totalTime.
C16_PercentMonotoneCapped ==
    (pureStep = "derived" /\ events = <<>>) =>
        /\ percentage = percentageOf(pctTime, pctTotal)
        /\ FracLeq(percentage, Frac(100, 1))
        /\ FracLeq(Frac(0, 1), percentage)
        /\ \A c \in 0..pctTime :
              FracLeq(percentageOf(c, pctTotal), percentage)
        /\ (pctTime >= pctTotal) => (percentage.num = 100 * percentage.den)
        /\ (pctTime < pctTotal) => (percentage.num * pctTotal = 100 * pctTime * percentage.den)

\* C16's case: currentTime beyond totalTime, shown as 100%.
C16_Witness ==
    /\ pureStep = "derived" /\ events = <<>>
    /\ pctTime > pctTotal
    /\ percentage = Frac(100, 1)

\* C17: in every reachable state currentTime lies in [0, meta.totalTime],
\* every goto being called with an offset in that range (CallGoto passes no
\* other, handleProgressClick clamps): neither a frame tick nor a controller
\* command stores a value outside it.
C17_CurrentTimeInRange == currentTime \in 0..TotalTime

\* What the code keeps instead: currentTime is an offset given to goto or a
\* reading of the engine's clock, neither of which is below 0.
C17_CurrentTimeNotNegative == currentTime >= 0

\* C18: in every reachable state at most one per-frame callback is pending,
\* and it is the one the timer handle names: starting the loop first cancels
\* the pending callback (one callback is pending afterwards, not two), a
\* tick that runs schedules at most one successor, and stopping a timer that
\* is already stopped changes nothing.
C18_AtMostOneCallback ==
    /\ Cardinality(rafQueue) <= 1
    /\ rafQueue \subseteq {timer}
    /\ (last.op # "none" /\ last.pre.rafQueue # {} /\ playerState = "playing"
            /\ "play" \in {cmds[i].c : i \in 1..Len(cmds)})
          => (rafQueue = {timer})
    /\ (timer = Null) => (stopTimer(World) = World)

\* C18's case: goto during playback, with a callback pending, restarts the
\* loop: one callback was pending before and one is pending after.
C18_Witness ==
    /\ last.op = "goto"
    /\ last.pre.playerState = "playing"
    /\ Cardinality(last.pre.rafQueue) = 1
    /\ cmds = <<Cmd("pause", 0), Cmd("play", last.a)>>
    /\ rafQueue = {timer}

\* C18's other cases: a tick ran and scheduled its one successor; the engine
\* is paused while the timer is already stopped.
C18_TickReschedules ==
    last.op = "frame" /\ last.a = 1 /\ Cardinality(rafQueue) = 1
C18_StopStopped ==
    /\ last.op = "pause" /\ last.pre.timer = Null /\ last.pre.playerState = "playing"
    /\ playerState = "paused" /\ timer = Null

\* The tick that reads an engine time at or beyond meta.totalTime stores it
\* and schedules no further callback.
TickAtEndStops ==
    (last.op = "frame" /\ last.a >= 1 /\ last.pre.etime >= TotalTime)
        => (currentTime = last.pre.etime /\ rafQueue = {})

\* With no callback pending, one becomes pending only in a handler that has
\* the engine play and is notified of its change to playing, never in a frame.
LoopStartedOnlyByPlaying ==
    (rafQueue = {} /\ rafQueue' # {})
        => /\ playerState' = "playing"
           /\ last'.op # "frame"
           /\ \E i \in 1..Len(cmds') : cmds'[i].c = "play"

AtEndWithCallback == rafQueue # {} /\ etime >= TotalTime

\* C19: the tick that reads a time at or beyond meta.totalTime schedules no
\* further callback; none becomes pending afterwards until the loop is started
\* again by a state change to playing; and whenever a callback is pending with
\* the engine's time at or beyond meta.totalTime, eventually none is pending
\* (or the engine has been sent back before the end).
C19_LoopStopsAtEnd ==
    /\ []TickAtEndStops
    /\ [][LoopStartedOnlyByPlaying]_vars
    /\ (AtEndWithCallback ~> (rafQueue = {} \/ etime < TotalTime))

\* C19's case: during playback a tick read a time at or beyond meta.totalTime
\* while the engine was still playing, and no callback is pending.
C19_Witness ==
    /\ last.op = "frame" /\ last.a = 1
    /\ last.pre.etime >= TotalTime
    /\ last.pre.playerState = "playing"
    /\ playerState = "playing"
    /\ currentTime >= TotalTime
    /\ rafQueue = {}

\* goto(t) has just returned on the mounted component with the engine paused
\* before and after it, and play() or toggle() is the very next call: no
\* other goto and no frame tick lies in between.
PlayRightAfterPausedGoto ==
    /\ last.op = "goto"
    /\ last.pre.phase = "mounted"
    /\ last.pre.playerState = "paused"
    /\ playerState = "paused"
    /\ last'.op \in {"play", "toggle"}

\* C20: after goto(t) while paused, with no other goto or frame tick in
\* between, the next effective play() or toggle() starts the engine from
\* offset t, in every reachable state, including after a finish notification.
C20_PlayFromSoughtOffset ==
    [][PlayRightAfterPausedGoto =>
          (cmds' = <<Cmd("play", last.a)>> /\ engState' = "playing" /\ etime' = last.a)]_vars

\* What the code does: the play after the paused goto starts from t unless the
\* finished flag is still set, and then it starts from 0.
C20_PlayFromSoughtUnlessFinished ==
    [][PlayRightAfterPausedGoto =>
          LET from == IF finished THEN 0 ELSE last.a
          IN  cmds' = <<Cmd("play", from)>> /\ engState' = "playing" /\ etime' = from]_vars

====
